---- MODULE Spec2Model ----
(***************************************************************************)
(* FocusFlow: the PDF viewer of src/components/FileViewer.tsx (the         *)
(* FileViewer component and its PDFPage sub-component) together with the   *)
(* part of the App shell that mounts it (src/unnamed/part_000).            *)
(*                                                                         *)
(* React state is modelled by one variable per useState/useRef cell.  An   *)
(* action is one event handler, timer callback or promise continuation,    *)
(* followed by the commit React performs for it: the page list is          *)
(* re-rendered (PDFPage components mount and unmount) and the effects      *)
(* whose dependencies changed run.  State updates issued back to back in   *)
(* one continuation are committed together (React 18 batching).            *)
(*                                                                         *)
(* Numbers: a scale is an exact rational <<n, d>>, d > 0, in lowest terms; *)
(* IEEE rounding of the 0.1 zoom step is not modelled.  An intersection    *)
(* ratio is an integer number of percent.                                  *)
(***************************************************************************)
EXTENDS Integers, Sequences, FiniteSets, TLC

(***************************** bounds **************************************)
\* most render() invocations started in one behaviour
MaxRenders == 2
\* most zoom clicks in a behaviour of the rendering specification
MaxZooms == 2
\* most notes-sidebar toggles in a behaviour of the rendering specification
MaxResolves == 1
\* most notes-sidebar toggles in a behaviour of the scale specification
MaxToggles == 2
\* most files picked in the restore view in a behaviour
MaxPicks == 2
\* most times a file is opened from the file list in a behaviour
MaxOpens == 2

(************************ program constants ********************************)
\* w-96, the notes sidebar; also the 384 of loadPdf
NotesWidth == 384
\* padding subtracted by loadPdf
LoadPadding == 48
\* padding subtracted by adjustScale
AdjustPadding == 64

(***************************** rationals ***********************************)
Abs(x) == IF x < 0 THEN -x ELSE x

RECURSIVE GCD(_, _)
GCD(a, b) == IF b = 0 THEN a ELSE GCD(b, a % b)

\* n/d in lowest terms, d > 0
Frac(n, d) == LET g == GCD(Abs(n), d) IN <<n \div g, d \div g>>

RatLess(a, b) == a[1] * b[2] < b[1] * a[2]
RatLeq(a, b) == a[1] * b[2] <= b[1] * a[2]
RatAdd(a, b) == Frac(a[1] * b[2] + b[1] * a[2], a[2] * b[2])
RatMin(a, b) == IF RatLess(b, a) THEN b ELSE a
RatMax(a, b) == IF RatLess(a, b) THEN b ELSE a
\* Math.floor(x * r) for an integer x
FloorMul(x, r) == (x * r[1]) \div r[2]

One == <<1, 1>>
MinScale == <<1, 5>>
MaxScale == <<5, 1>>
ZoomStep == <<1, 10>>
ZoomInDelta == ZoomStep
ZoomOutDelta == <<-1, 10>>

(***************************** documents ***********************************)
\* file.url: a data URL, named by the document it decodes to
NoUrl == "none"
NoDoc == "none"
\* a URL pdfjsLib.getDocument rejects
Corrupt == "corrupt"
Docs == {"docA", "docB", "docC"}
Urls == Docs \cup {Corrupt}

\* doc.numPages
NumPagesOf(d) == CASE d = "docA" -> 2 [] d = "docB" -> 1 [] d = "docC" -> 3 [] OTHER -> 0
\* page.getViewport({scale: 1.0}).width / .height
NaturalWidth(d) == CASE d = "docB" -> 500 [] OTHER -> 1000
NaturalHeight(d) == CASE d = "docB" -> 700 [] OTHER -> 1400

\* page keys a PDFPage can be mounted under: 1 .. the largest numPages
Pages == 1 .. 3

FileIds == {1, 2}
NoFile == [id |-> 0, url |-> NoUrl]

NoError == "null"
LoadErrorMessage == "Could not load PDF. It might be corrupted or incompatible."

\* useState<number | null>(null) of pageHeight
NoHeight == <<0, 0>>
NoContent == [doc |-> NoDoc, scale |-> <<0, 1>>]
\* a canvas element before its first render: the HTML default size of the
\* backing store, and no style.width / style.height (0)
BlankCanvas ==
  [width |-> 300, height |-> 150, styleWidth |-> 0, styleHeight |-> 0,
   content |-> NoContent]

\* intersectionRatio values an observer entry reports, in percent
Ratios == {0, 40, 90}
\* a budget that is never used up
Unlimited == 0 - 1

VARIABLES
  files,          \* App: file id -> url (files state)
  currentFile,    \* App: currentFile, NoFile when the list view is shown
  disk,           \* the documents the user can pick in a file dialog
  innerWidth,     \* window.innerWidth
  dpr,            \* window.devicePixelRatio
  pointerOverToolbar, \* the mouse pointer is over the viewer's floating toolbar
  pomodoro,       \* App: the state of the Pomodoro component
  budget,         \* what is left of the bounds above
  showNotes, pdfDoc, numPages, scale, loading, error,
  currentPage,
  pageVisibility, \* pageVisibilityRef: the Map, as <<page, ratio>> pairs in insertion order
  showToolbar,
  toolbarTimer,   \* toolbarTimeoutRef holds a timer that has not fired
  readers,        \* FileReaders of handleRestoreFile that have not fired onload
  loads,          \* loadPdf calls in flight, in start order
  adjusts,        \* adjustScale timers and calls in flight, in start order
  slots,          \* page number -> the PDFPage component of that key
  renders,        \* render() invocations of PDFPage in flight
  nextRender,     \* the number of the next render() invocation
  consoleErrors   \* what console.error has reported

appVars == <<files, currentFile, disk, innerWidth, dpr, pointerOverToolbar, pomodoro, budget>>
viewerVars == <<showNotes, pdfDoc, numPages, scale, loading, error, currentPage,
                pageVisibility, showToolbar, toolbarTimer>>
asyncVars == <<readers, loads, adjusts>>
pageVars == <<slots, renders, nextRender, consoleErrors>>
vars == <<appVars, viewerVars, asyncVars, pageVars>>

(************************* the page list (renderContent) *******************)
\* Shown without the error branch of renderContent
ShownDespiteError(cf, ld, er, doc) ==
  /\ cf # NoFile
  /\ cf.url # NoUrl
  /\ ~ld
  /\ doc # NoDoc

\* renderContent reaches the PDF branch: the PDFPage list is rendered
Shown(cf, ld, er, doc) ==
  /\ cf # NoFile
  /\ cf.url # NoUrl
  /\ ~ld
  /\ er = NoError
  /\ doc # NoDoc

PagesShown == Shown(currentFile, loading, error, pdfDoc)

\* a PDFPage component as useState/useRef initialise it
FreshSlot == [mounted |-> TRUE, isVisible |-> FALSE, isRendered |-> FALSE,
              pageHeight |-> NoHeight, renderTaskRef |-> 0, canvas |-> BlankCanvas]
NoSlot == [FreshSlot EXCEPT !.mounted = FALSE]

\* !pageHeight
Falsy(h) == h = NoHeight \/ h[1] = 0

\* NewRender at the scale a PDFPage starts with, not the scale of the commit
NewRenderAtDefaultScale(id, p, doc, sc, sl) ==
  [id |-> id, page |-> p, doc |-> doc, scale |-> One,
   hadHeight |-> ~Falsy(sl.pageHeight), phase |-> "getPage", orphan |-> FALSE]

\* the render() call the render effect makes for slot sl of page p
NewRender(id, p, doc, sc, sl) ==
  [id |-> id, page |-> p, doc |-> doc, scale |-> sc,
   hadHeight |-> ~Falsy(sl.pageHeight), phase |-> "getPage", orphan |-> FALSE]

\* the invocations of the pages ps, numbered from nextRender in page order
StartRenders(ps, doc, sc, sl) ==
  {NewRender(nextRender + Cardinality({q \in ps : q < p}), p, doc, sc, sl[p]) : p \in ps}

\* invocations whose component unmounts lose their canvas (canvasRef.current = null)
Orphan(rs, ps) == {IF r.page \in ps THEN [r EXCEPT !.orphan = TRUE] ELSE r : r \in rs}

\* ViewerCommit when the render effect depends on pdfDoc only, not on scale
ViewerCommitDocOnly(cf, doc, np, sc, ld, er) ==
  LET mountedNow(p) == Shown(cf, ld, er, doc) /\ p <= np
      kept == {p \in Pages : mountedNow(p) /\ slots[p].mounted}
      gone == {p \in Pages : slots[p].mounted /\ ~mountedNow(p)}
      rerun == {p \in kept : slots[p].isVisible /\ doc # pdfDoc}
      sl == [p \in Pages |-> IF p \in kept THEN slots[p]
                             ELSE IF mountedNow(p) THEN FreshSlot ELSE NoSlot]
  IN /\ nextRender + Cardinality(rerun) <= budget.render + 1
     /\ slots' = sl
     /\ renders' = Orphan(renders, gone) \cup StartRenders(rerun, doc, sc, sl)
     /\ nextRender' = nextRender + Cardinality(rerun)

\* React's commit after a FileViewer state change: PDFPage components mount and
\* unmount as renderContent says, and the render effect of every mounted page
\* whose pdfDoc or scale dependency changed starts a render()
ViewerCommit(cf, doc, np, sc, ld, er) ==
  LET mountedNow(p) == Shown(cf, ld, er, doc) /\ p <= np
      kept == {p \in Pages : mountedNow(p) /\ slots[p].mounted}
      gone == {p \in Pages : slots[p].mounted /\ ~mountedNow(p)}
      rerun == {p \in kept : slots[p].isVisible /\ (doc # pdfDoc \/ sc # scale)}
      sl == [p \in Pages |-> IF p \in kept THEN slots[p]
                             ELSE IF mountedNow(p) THEN FreshSlot ELSE NoSlot]
  IN /\ nextRender + Cardinality(rerun) <= budget.render + 1
     /\ slots' = sl
     /\ renders' = Orphan(renders, gone) \cup StartRenders(rerun, doc, sc, sl)
     /\ nextRender' = nextRender + Cardinality(rerun)

Spend(what) ==
  /\ budget[what] # 0
  /\ budget' = IF budget[what] = Unlimited THEN budget
               ELSE [budget EXCEPT ![what] = @ - 1]

\* resetToolbarTimer: the pending hide timer is cleared and a new one armed
resetToolbarTimer == toolbarTimer' = TRUE

(***************************** Pomodoro ***********************************)
\* The Pomodoro component is mounted by the App shell next to every view; its
\* state is one record.  Durations are minutes, timeLeft is seconds.
FocusInputs == {0, 1, 2}
BreakInputs == {0, 1}

\* the useState initial values
PomodoroMounted ==
  [focusDuration |-> 25, breakDuration |-> 5, autoStartBreak |-> TRUE,
   timeLeft |-> 25 * 60, status |-> "IDLE", mode |-> "FOCUS", isExpanded |-> FALSE]

\* the configured duration of a mode, in seconds
FullTime(p, mode) == IF mode = "FOCUS" THEN p.focusDuration * 60 ELSE p.breakDuration * 60

\* the sync effect, with old the state of the previous commit: it runs when one
\* of its dependencies changed and sets timeLeft when the status is IDLE
SyncTimeLeft(old, p) ==
  IF /\ <<p.focusDuration, p.breakDuration, p.status, p.mode>>
          # <<old.focusDuration, old.breakDuration, old.status, old.mode>>
     /\ p.status = "IDLE"
  THEN [p EXCEPT !.timeLeft = FullTime(p, p.mode)]
  ELSE p

\* toggleTimer followed by the effects of the commit
AfterToggleTimer(p) ==
  SyncTimeLeft(p, [p EXCEPT !.status = IF p.status = "IDLE" THEN p.mode ELSE "IDLE"])

\* resetTimer followed by the effects of the commit
AfterResetTimer(p) ==
  SyncTimeLeft(p, [p EXCEPT !.status = "IDLE", !.timeLeft = FullTime(p, p.mode)])

\* one call of the interval callback followed by the effects of the commit
AfterTick(p) ==
  SyncTimeLeft(p,
    IF p.timeLeft <= 1
    THEN IF p.mode = "FOCUS"
         THEN [p EXCEPT !.mode = "BREAK",
                        !.status = IF p.autoStartBreak THEN "BREAK" ELSE "IDLE",
                        !.timeLeft = p.breakDuration * 60]
         ELSE [p EXCEPT !.mode = "FOCUS", !.status = "IDLE",
                        !.timeLeft = p.focusDuration * 60]
    ELSE [p EXCEPT !.timeLeft = p.timeLeft - 1])

PomodoroCommit(p) ==
  /\ pomodoro' = p
  /\ UNCHANGED <<files, currentFile, disk, innerWidth, dpr, pointerOverToolbar, budget,
                 viewerVars, asyncVars, pageVars>>

\* the floating button and the close button of the panel
setIsExpanded(b) ==
  /\ pomodoro.isExpanded # b
  /\ PomodoroCommit([pomodoro EXCEPT !.isExpanded = b])

\* the START / PAUSE button of the panel
toggleTimer ==
  /\ pomodoro.isExpanded
  /\ PomodoroCommit(AfterToggleTimer(pomodoro))

\* the reset button of the panel
resetTimer ==
  /\ pomodoro.isExpanded
  /\ PomodoroCommit(AfterResetTimer(pomodoro))

\* the interval of the tick effect, which exists while the status is not IDLE
Tick ==
  /\ pomodoro.status # "IDLE"
  /\ PomodoroCommit(AfterTick(pomodoro))

\* the settings are shown in the panel while the status is IDLE
handleFocusChange(val) ==
  /\ pomodoro.isExpanded /\ pomodoro.status = "IDLE"
  /\ PomodoroCommit(SyncTimeLeft(pomodoro,
       IF val > 0 /\ val <= 180 THEN [pomodoro EXCEPT !.focusDuration = val] ELSE pomodoro))

handleBreakChange(val) ==
  /\ pomodoro.isExpanded /\ pomodoro.status = "IDLE"
  /\ PomodoroCommit(SyncTimeLeft(pomodoro,
       IF val > 0 /\ val <= 60 THEN [pomodoro EXCEPT !.breakDuration = val] ELSE pomodoro))

setAutoStartBreak ==
  /\ pomodoro.isExpanded /\ pomodoro.status = "IDLE"
  /\ PomodoroCommit([pomodoro EXCEPT !.autoStartBreak = ~ @])

(******************************* Init **************************************)
\* The App shows the file list; file 1 holds its content, file 2 was reloaded
\* from localStorage without it (the persistence effect strips large urls).
InitWith(urls1, disks, widths, dprs, bud) ==
  /\ files \in {[f \in FileIds |-> IF f = 1 THEN u ELSE NoUrl] : u \in urls1}
  /\ currentFile = NoFile
  /\ disk \in disks
  /\ innerWidth \in widths
  /\ dpr \in dprs
  /\ pointerOverToolbar = FALSE
  /\ pomodoro = PomodoroMounted
  /\ budget = bud
  /\ showNotes = FALSE /\ pdfDoc = NoDoc /\ numPages = 0 /\ scale = One
  /\ loading = FALSE /\ error = NoError /\ currentPage = 1
  /\ pageVisibility = <<>>
  /\ showToolbar = TRUE /\ toolbarTimer = FALSE
  /\ readers = <<>> /\ loads = <<>> /\ adjusts = <<>>
  /\ slots = [p \in Pages |-> NoSlot]
  /\ renders = {} /\ nextRender = 1 /\ consoleErrors = {}

(************************ App: open and close ******************************)
\* loadPdf up to its first await: setLoading(true); setError(null); getDocument
StartLoad(url) == Append(loads, [doc |-> url, phase |-> "open", notes |-> showNotes])

\* openFile(file): the FileViewer mounts; its mount effects start loadPdf when
\* the file has a url and arm the toolbar timer
openFile(f) ==
  /\ currentFile = NoFile
  /\ Spend("open")
  /\ currentFile' = [id |-> f, url |-> files[f]]
  /\ showNotes' = FALSE /\ pdfDoc' = NoDoc /\ numPages' = 0 /\ scale' = One
  /\ error' = NoError /\ currentPage' = 1 /\ pageVisibility' = <<>>
  /\ showToolbar' = TRUE /\ resetToolbarTimer
  /\ loading' = (files[f] # NoUrl)
  /\ loads' = IF files[f] # NoUrl
              THEN <<[doc |-> files[f], phase |-> "open", notes |-> FALSE]>>
              ELSE <<>>
  /\ adjusts' = <<>>
  /\ UNCHANGED <<files, disk, innerWidth, dpr, pointerOverToolbar, pomodoro, readers, pageVars>>

\* onBack: setCurrentFile(null) unmounts the FileViewer.  Its state is dropped;
\* the mount effect's cleanup clears the toolbar timer.  Nothing else is
\* cancelled: loads and adjustScale calls still in flight set the state of an
\* unmounted component (no effect, so they are dropped here), FileReaders still
\* call onUpdateFile, and render() invocations run on without their canvas.
onBack ==
  /\ currentFile # NoFile
  /\ currentFile' = NoFile
  /\ showNotes' = FALSE /\ pdfDoc' = NoDoc /\ numPages' = 0 /\ scale' = One
  /\ loading' = FALSE /\ error' = NoError /\ currentPage' = 1
  /\ pageVisibility' = <<>>
  /\ showToolbar' = TRUE /\ toolbarTimer' = FALSE
  /\ readers' = [i \in DOMAIN readers |-> [readers[i] EXCEPT !.orphan = TRUE]]
  /\ loads' = <<>> /\ adjusts' = <<>>
  /\ ViewerCommit(NoFile, NoDoc, 0, One, FALSE, NoError)
  /\ pointerOverToolbar' = FALSE
  /\ UNCHANGED <<files, disk, innerWidth, dpr, pomodoro, budget, consoleErrors>>

(*************************** scale resolution ******************************)
\* FitScale without the Math.min
FitScaleUncapped(avail, natural) == Frac(avail, natural)

\* Math.min(fit, 1.0) of an available width over the natural width of page 1
FitScale(avail, natural) == RatMin(Frac(avail, natural), One)

\* loadPdf: availableWidth = window.innerWidth - (showNotes ? 384 : 0) - 48
LoadAvailableWidth(w, notes) == w - (IF notes THEN NotesWidth ELSE 0) - LoadPadding

\* the clientWidth of the page list container: the flex row leaves it what the
\* notes sidebar (flex-shrink-0 w-96) does not take
ClientWidth(w, notes) ==
  IF notes /\ w > NotesWidth THEN w - NotesWidth ELSE IF notes THEN 0 ELSE w

\* adjustScale: containerRef.current?.clientWidth || window.innerWidth
AdjustContainerWidth(shown, w, notes) ==
  IF shown /\ ClientWidth(w, notes) # 0 THEN ClientWidth(w, notes) ELSE w

\* AdjustedScale with the padding of loadPdf
AdjustedScaleLoadPadding(cw, doc) == FitScale(cw - LoadPadding, NaturalWidth(doc))

\* adjustScale: (containerWidth - 64) / viewport.width, capped
AdjustedScale(cw, doc) == FitScale(cw - AdjustPadding, NaturalWidth(doc))

\* ZoomedScale with the upper clamp only
ZoomedScaleNoFloor(prev, delta) == RatMin(MaxScale, RatAdd(prev, delta))

\* changeZoom: Math.max(0.2, Math.min(5.0, prev + delta))
ZoomedScale(prev, delta) == RatMax(MinScale, RatMin(MaxScale, RatAdd(prev, delta)))

(************************ restore: FileReader ******************************)
\* handleRestoreFile: the restore view (no file.url) offers a file input; each
\* selection starts a FileReader of its own
handleRestoreFile(d) ==
  /\ currentFile # NoFile
  /\ currentFile.url = NoUrl
  /\ d \in disk
  /\ Spend("pick")
  /\ readers' = Append(readers, [file |-> currentFile.id, doc |-> d, orphan |-> FALSE])
  /\ UNCHANGED <<files, currentFile, disk, innerWidth, dpr, pointerOverToolbar, pomodoro, viewerVars, loads, adjusts,
                 pageVars>>

RemoveAt(q, i) == [j \in 1 .. Len(q) - 1 |-> IF j < i THEN q[j] ELSE q[j + 1]]

\* reader.onload: onUpdateFile(file.id, result); setError(null).
\* handleUpdateFile stores the url in files and in whatever file is current
\* (its id test reads the currentFile of the render that made the handler, which
\* was the reader's file); the FileViewer's load effect runs when its file.url
\* prop changed.
ReaderLoad(i) ==
  /\ i \in DOMAIN readers
  /\ LET rd == readers[i]
         open == currentFile # NoFile
         cf == IF open THEN [currentFile EXCEPT !.url = rd.doc] ELSE NoFile
         reload == open /\ currentFile.url # rd.doc
         ld == IF reload THEN TRUE ELSE loading
         er == IF reload \/ (open /\ ~rd.orphan) THEN NoError ELSE error
     IN /\ files' = [files EXCEPT ![rd.file] = rd.doc]
        /\ currentFile' = cf
        /\ readers' = RemoveAt(readers, i)
        /\ loads' = IF reload THEN StartLoad(rd.doc) ELSE loads
        /\ loading' = ld
        /\ error' = er
        /\ ViewerCommit(cf, pdfDoc, numPages, scale, ld, er)
  /\ UNCHANGED <<disk, innerWidth, dpr, pointerOverToolbar, pomodoro, budget, showNotes, pdfDoc, numPages, scale,
                 currentPage, pageVisibility, showToolbar, toolbarTimer, adjusts,
                 consoleErrors>>

(******************************* loadPdf ***********************************)
\* await loadingTask.promise resolves: setPdfDoc(doc); setNumPages(doc.numPages)
LoadOpened(i) ==
  /\ i \in DOMAIN loads
  /\ loads[i].phase = "open"
  /\ loads[i].doc \in Docs
  /\ pdfDoc' = loads[i].doc
  /\ numPages' = NumPagesOf(loads[i].doc)
  /\ loads' = [loads EXCEPT ![i].phase = "page1"]
  /\ ViewerCommit(currentFile, loads[i].doc, NumPagesOf(loads[i].doc), scale, loading, error)
  /\ UNCHANGED <<appVars, showNotes, scale, loading, error, currentPage, pageVisibility,
                 showToolbar, toolbarTimer, readers, adjusts, consoleErrors>>

\* await loadingTask.promise rejects: catch sets the error, finally clears loading
LoadFailed(i) ==
  /\ i \in DOMAIN loads
  /\ loads[i].phase = "open"
  /\ loads[i].doc = Corrupt
  /\ error' = LoadErrorMessage
  /\ loading' = FALSE
  /\ loads' = RemoveAt(loads, i)
  /\ consoleErrors' = consoleErrors \cup {<<"load", 0>>}
  /\ ViewerCommit(currentFile, pdfDoc, numPages, scale, FALSE, LoadErrorMessage)
  /\ UNCHANGED <<appVars, showNotes, pdfDoc, numPages, scale, currentPage, pageVisibility,
                 showToolbar, toolbarTimer, readers, adjusts>>

\* await doc.getPage(1) resolves: the initial scale is set from the showNotes
\* the effect's render saw, and finally clears loading
LoadPage1(i) ==
  /\ i \in DOMAIN loads
  /\ loads[i].phase = "page1"
  /\ LET sc == FitScale(LoadAvailableWidth(innerWidth, loads[i].notes),
                        NaturalWidth(loads[i].doc))
     IN /\ scale' = sc
        /\ loading' = FALSE
        /\ ViewerCommit(currentFile, pdfDoc, numPages, sc, FALSE, error)
  /\ loads' = RemoveAt(loads, i)
  /\ UNCHANGED <<appVars, showNotes, pdfDoc, numPages, error, currentPage, pageVisibility,
                 showToolbar, toolbarTimer, readers, adjusts, consoleErrors>>

\* changeZoom that also goes back to page 1
changeZoomResetsPage(delta) ==
  /\ currentFile # NoFile
  /\ Spend("zoom")
  /\ scale' = ZoomedScale(scale, delta)
  /\ resetToolbarTimer
  /\ currentPage' = 1
  /\ ViewerCommit(currentFile, pdfDoc, numPages, ZoomedScale(scale, delta), loading, error)
  /\ UNCHANGED <<files, currentFile, disk, innerWidth, dpr, pointerOverToolbar, pomodoro,
                 showNotes, pdfDoc, numPages, loading, error, pageVisibility, showToolbar,
                 asyncVars, consoleErrors>>

(**************************** zoom and notes *******************************)
\* changeZoom(delta), from the zoom buttons (delta -0.1 and 0.1)
changeZoom(delta) ==
  /\ currentFile # NoFile
  /\ Spend("zoom")
  /\ scale' = ZoomedScale(scale, delta)
  /\ resetToolbarTimer
  /\ ViewerCommit(currentFile, pdfDoc, numPages, ZoomedScale(scale, delta), loading, error)
  /\ UNCHANGED <<files, currentFile, disk, innerWidth, dpr, pointerOverToolbar, pomodoro, showNotes, pdfDoc, numPages,
                 loading, error, currentPage, pageVisibility, showToolbar, asyncVars,
                 consoleErrors>>

zoomIn == changeZoom(ZoomInDelta)
zoomOut == changeZoom(ZoomOutDelta)

\* the notes toggle: setShowNotes(!showNotes); resetToolbarTimer(); then the
\* re-scale effect: if (pdfDoc) setTimeout(adjustScale, 300)
toggleNotes ==
  /\ currentFile # NoFile
  /\ Spend("toggle")
  /\ showNotes' = ~showNotes
  /\ resetToolbarTimer
  /\ adjusts' = IF pdfDoc # NoDoc
                THEN Append(adjusts, [doc |-> pdfDoc, phase |-> "timer", width |-> 0])
                ELSE adjusts
  /\ UNCHANGED <<files, currentFile, disk, innerWidth, dpr, pointerOverToolbar, pomodoro, pdfDoc, numPages, scale,
                 loading, error, currentPage, pageVisibility, showToolbar, readers, loads,
                 pageVars>>

(******************************* toolbar ***********************************)
\* what the toolbar handlers leave alone
ToolbarFrame ==
  UNCHANGED <<files, currentFile, disk, innerWidth, dpr, pomodoro, budget, showNotes, pdfDoc,
              numPages, scale, loading, error, currentPage, pageVisibility, asyncVars,
              pageVars>>

\* onMouseEnter of the toolbar: the pending hide timer is cleared and the
\* toolbar is shown.  A hidden toolbar is moved out of the view, so the pointer
\* enters a shown one.
toolbarMouseEnter ==
  /\ currentFile # NoFile
  /\ showToolbar /\ ~pointerOverToolbar
  /\ pointerOverToolbar' = TRUE
  /\ toolbarTimer' = FALSE
  /\ showToolbar' = TRUE
  /\ ToolbarFrame

\* onMouseLeave of the toolbar: resetToolbarTimer
toolbarMouseLeave ==
  /\ currentFile # NoFile
  /\ pointerOverToolbar
  /\ pointerOverToolbar' = FALSE
  /\ resetToolbarTimer
  /\ UNCHANGED showToolbar
  /\ ToolbarFrame

\* the "Show Controls" button, which can be clicked while the toolbar is hidden
showControls ==
  /\ currentFile # NoFile
  /\ ~showToolbar
  /\ showToolbar' = TRUE
  /\ resetToolbarTimer
  /\ UNCHANGED pointerOverToolbar
  /\ ToolbarFrame

\* the 3000 ms timer of resetToolbarTimer fires: setShowToolbar(false)
ToolbarHide ==
  /\ currentFile # NoFile
  /\ toolbarTimer
  /\ showToolbar' = FALSE
  /\ toolbarTimer' = FALSE
  /\ UNCHANGED pointerOverToolbar
  /\ ToolbarFrame

\* the 300 ms timer fires: adjustScale reads the container width and awaits getPage(1)
AdjustFire(i) ==
  /\ i \in DOMAIN adjusts
  /\ adjusts[i].phase = "timer"
  /\ \A j \in 1 .. i - 1 : adjusts[j].phase # "timer"
  /\ adjusts' = [adjusts EXCEPT ![i] = [@ EXCEPT !.phase = "page1",
                   !.width = AdjustContainerWidth(PagesShown, innerWidth, showNotes)]]
  /\ UNCHANGED <<appVars, viewerVars, readers, loads, pageVars>>

\* AdjustResolve that keeps a larger zoom of the user
AdjustResolveKeepsZoom(i) ==
  /\ i \in DOMAIN adjusts
  /\ adjusts[i].phase = "page1"
  /\ LET sc == RatMax(scale, AdjustedScale(adjusts[i].width, adjusts[i].doc))
     IN /\ scale' = sc
        /\ ViewerCommit(currentFile, pdfDoc, numPages, sc, loading, error)
  /\ adjusts' = RemoveAt(adjusts, i)
  /\ UNCHANGED <<appVars, showNotes, pdfDoc, numPages, loading, error, currentPage,
                 pageVisibility, showToolbar, toolbarTimer, readers, loads, consoleErrors>>

\* adjustScale after await pdfDoc.getPage(1): setScale(Math.min(fitScale, 1.0))
AdjustResolve(i) ==
  /\ i \in DOMAIN adjusts
  /\ adjusts[i].phase = "page1"
  /\ LET sc == AdjustedScale(adjusts[i].width, adjusts[i].doc)
     IN /\ scale' = sc
        /\ ViewerCommit(currentFile, pdfDoc, numPages, sc, loading, error)
  /\ adjusts' = RemoveAt(adjusts, i)
  /\ UNCHANGED <<appVars, showNotes, pdfDoc, numPages, loading, error, currentPage,
                 pageVisibility, showToolbar, toolbarTimer, readers, loads, consoleErrors>>

(********************** visibility and the current page ********************)
\* pageVisibilityRef.current.set(pageNum, ratio): a key already in the Map keeps
\* its place in the iteration order, a new key goes last
SetVisibility(pv, pageNum, ratio) ==
  IF \E i \in DOMAIN pv : pv[i][1] = pageNum
  THEN [i \in DOMAIN pv |-> IF pv[i][1] = pageNum THEN <<pageNum, ratio>> ELSE pv[i]]
  ELSE Append(pv, <<pageNum, ratio>>)

\* the forEach of handleUpdateCurrentPage from entry i on
RECURSIVE ScanVisibility(_, _, _, _)
ScanVisibility(pv, i, maxRatio, mostVisiblePage) ==
  IF i > Len(pv) THEN mostVisiblePage
  ELSE IF pv[i][2] > maxRatio
       THEN ScanVisibility(pv, i + 1, pv[i][2], pv[i][1])
       ELSE ScanVisibility(pv, i + 1, maxRatio, mostVisiblePage)

\* let maxRatio = 0; let mostVisiblePage = currentPage; forEach ...
MostVisiblePage(pv, cur) == ScanVisibility(pv, 1, 0, cur)

\* Intersect with isVisible following the latest observer entry
IntersectUnlatched(p, isIntersecting, ratio) ==
  /\ p \in Pages
  /\ slots[p].mounted
  /\ isIntersecting \/ ratio = 0
  /\ LET vis == isIntersecting
         start == vis /\ ~slots[p].isVisible /\ pdfDoc # NoDoc
         sl == [slots EXCEPT ![p].isVisible = vis]
         pv == SetVisibility(pageVisibility, p, ratio)
     IN /\ start => nextRender <= budget.render
        /\ slots' = sl
        /\ renders' = IF start THEN renders \cup StartRenders({p}, pdfDoc, scale, sl)
                      ELSE renders
        /\ nextRender' = IF start THEN nextRender + 1 ELSE nextRender
        /\ pageVisibility' = pv
        /\ currentPage' = MostVisiblePage(pv, currentPage)
  /\ UNCHANGED <<appVars, showNotes, pdfDoc, numPages, scale, loading, error, showToolbar,
                 toolbarTimer, asyncVars, consoleErrors>>

\* the IntersectionObserver callback of page p for one entry: setIsVisible(true)
\* when it intersects, then registerVisibility = handleUpdateCurrentPage; the
\* render effect runs when isVisible changed
Intersect(p, isIntersecting, ratio) ==
  /\ p \in Pages
  /\ slots[p].mounted
  /\ isIntersecting \/ ratio = 0
  /\ LET vis == slots[p].isVisible \/ isIntersecting
         start == vis /\ ~slots[p].isVisible /\ pdfDoc # NoDoc
         sl == [slots EXCEPT ![p].isVisible = vis]
         pv == SetVisibility(pageVisibility, p, ratio)
     IN /\ start => nextRender <= budget.render
        /\ slots' = sl
        /\ renders' = IF start THEN renders \cup StartRenders({p}, pdfDoc, scale, sl)
                      ELSE renders
        /\ nextRender' = IF start THEN nextRender + 1 ELSE nextRender
        /\ pageVisibility' = pv
        /\ currentPage' = MostVisiblePage(pv, currentPage)
  /\ UNCHANGED <<appVars, showNotes, pdfDoc, numPages, scale, loading, error, showToolbar,
                 toolbarTimer, asyncVars, consoleErrors>>

(****************************** PDFPage render *****************************)
\* page.getViewport({scale}): width and height
ViewportWidth(doc, sc) == Frac(NaturalWidth(doc) * sc[1], sc[2])
ViewportHeight(doc, sc) == Frac(NaturalHeight(doc) * sc[1], sc[2])

\* dpr = window.devicePixelRatio || 1 (ratio is the former);
\* canvas.width = Math.floor(viewport.width * dpr), canvas.style.width =
\* Math.floor(viewport.width) px, and the heights alike; assigning a canvas
\* size clears the canvas
SizedCanvas(doc, sc, ratio) ==
  LET d == IF ratio = 0 THEN 1 ELSE ratio
  IN [width |-> FloorMul(NaturalWidth(doc) * d, sc),
      height |-> FloorMul(NaturalHeight(doc) * d, sc),
      styleWidth |-> FloorMul(NaturalWidth(doc), sc),
      styleHeight |-> FloorMul(NaturalHeight(doc), sc),
      content |-> NoContent]

\* CancelTask without the cancel() call
CancelTaskSkipped(rs, ref) == rs

\* renderTaskRef.current.cancel(): a task still rendering rejects its promise
\* with RenderingCancelledException; a task that has ended is not affected
CancelTask(rs, ref) ==
  {IF r.id = ref /\ r.phase = "raster" THEN [r EXCEPT !.phase = "cancelled"] ELSE r : r \in rs}

\* RenderCatch without the test of err.name
RenderCatchAny(name, p) == consoleErrors \cup {<<"render", p>>}

\* the catch of render(): everything but a cancellation goes to console.error
RenderCatch(name, p) ==
  IF name # "RenderingCancelledException"
  THEN consoleErrors \cup {<<"render", p>>}
  ELSE consoleErrors

\* await pdfDoc.getPage(pageNum): pdfjs-dist 4.0.379 hands every caller of
\* getPage(n) on one document the same cached promise, and the continuations
\* of one promise run in the order they were awaited; invocations of one page
\* of one document therefore pass this await oldest first
PagePromiseOrder(r) ==
  \A q \in renders :
    (q.page = r.page /\ q.doc = r.doc /\ ~q.orphan /\ q.phase = "getPage") => q.id >= r.id

\* render() after await pdfDoc.getPage(pageNum), down to await task.promise:
\* the page height is stored if the closure saw none, the canvas is sized, the
\* task in renderTaskRef is cancelled and the new task takes its place
RenderGotPage(r) ==
  /\ r \in renders
  /\ r.phase = "getPage"
  /\ ~r.orphan
  /\ PagePromiseOrder(r)
  /\ LET sl == slots[r.page]
     IN /\ slots' = [slots EXCEPT ![r.page] =
                       [sl EXCEPT !.pageHeight = IF r.hadHeight THEN sl.pageHeight
                                                 ELSE ViewportHeight(r.doc, r.scale),
                                  !.canvas = SizedCanvas(r.doc, r.scale, dpr),
                                  !.renderTaskRef = r.id]]
        /\ renders' = (CancelTask(renders, sl.renderTaskRef) \ {r})
                        \cup {[r EXCEPT !.phase = "raster"]}
  /\ UNCHANGED <<appVars, viewerVars, asyncVars, nextRender, consoleErrors>>

\* the same continuation in a component that has unmounted: canvasRef.current is
\* null, canvas.getContext throws a TypeError and the catch reports it
RenderGotPageUnmounted(r) ==
  /\ r \in renders
  /\ r.phase = "getPage"
  /\ r.orphan
  /\ renders' = renders \ {r}
  /\ consoleErrors' = RenderCatch("TypeError", r.page)
  /\ UNCHANGED <<appVars, viewerVars, asyncVars, slots, nextRender>>

\* await task.promise resolves: setIsRendered(true); the canvas holds the page
RenderTaskDone(r) ==
  /\ r \in renders
  /\ r.phase = "raster"
  /\ renders' = renders \ {r}
  /\ slots' = IF r.orphan THEN slots
              ELSE [slots EXCEPT ![r.page] =
                      [@ EXCEPT !.isRendered = TRUE,
                                !.canvas = [@ EXCEPT !.content =
                                              [doc |-> r.doc, scale |-> r.scale]]]]
  /\ UNCHANGED <<appVars, viewerVars, asyncVars, nextRender, consoleErrors>>

\* RenderTaskFail when a failure aborts the renders of the other pages as well
RenderTaskFailAbortsAll(r) ==
  /\ r \in renders
  /\ r.phase = "raster"
  /\ renders' = {}
  /\ consoleErrors' = RenderCatch("UnknownErrorException", r.page)
  /\ UNCHANGED <<appVars, viewerVars, asyncVars, slots, nextRender>>

\* RenderTaskFail when the catch also brings the loading placeholder back
RenderTaskFailClearsRendered(r) ==
  /\ r \in renders
  /\ r.phase = "raster"
  /\ renders' = renders \ {r}
  /\ consoleErrors' = RenderCatch("UnknownErrorException", r.page)
  /\ slots' = IF r.orphan THEN slots ELSE [slots EXCEPT ![r.page].isRendered = FALSE]
  /\ UNCHANGED <<appVars, viewerVars, asyncVars, nextRender>>

\* await task.promise rejects with a decoding error
RenderTaskFail(r) ==
  /\ r \in renders
  /\ r.phase = "raster"
  /\ renders' = renders \ {r}
  /\ consoleErrors' = RenderCatch("UnknownErrorException", r.page)
  /\ UNCHANGED <<appVars, viewerVars, asyncVars, slots, nextRender>>

\* await task.promise rejects with the RenderingCancelledException of cancel()
RenderCancelled(r) ==
  /\ r \in renders
  /\ r.phase = "cancelled"
  /\ renders' = renders \ {r}
  /\ consoleErrors' = RenderCatch("RenderingCancelledException", r.page)
  /\ UNCHANGED <<appVars, viewerVars, asyncVars, slots, nextRender>>

(**************************** specifications *******************************)
\* render: the render() invocations a behaviour may start; the others: what is
\* left of the clicks of each kind
NoBudget == [render |-> 0, zoom |-> 0, toggle |-> 0, pick |-> 0, open |-> 0]

\* Rendering under scale changes: one document is opened, its pages come into
\* view, and zoom clicks and sidebar toggles change the scale while page
\* fetches and render tasks are in flight.
Init ==
  InitWith({"docA"}, {{}}, {848}, {1},
           [NoBudget EXCEPT !.render = MaxRenders, !.open = 1, !.zoom = MaxZooms,
                            !.toggle = MaxResolves])

Next ==
  \/ openFile(1)
  \/ \E i \in DOMAIN loads : LoadOpened(i)
  \/ \E i \in DOMAIN loads : LoadPage1(i)
  \/ zoomIn
  \/ zoomOut
  \/ toggleNotes
  \/ \E i \in DOMAIN adjusts : AdjustFire(i)
  \/ \E i \in DOMAIN adjusts : AdjustResolve(i)
  \/ \E p \in Pages : Intersect(p, TRUE, 40)
  \/ \E r \in renders : RenderGotPage(r)
  \/ \E r \in renders : RenderTaskDone(r)
  \/ \E r \in renders : RenderTaskFail(r)
  \/ \E r \in renders : RenderCancelled(r)

Spec == Init /\ [][Next]_vars

\* Rendering to completion: as Spec without sidebar toggles and without decode
\* errors; every page fetch and render task that was issued completes, and so
\* does every step of the load.
InitLive ==
  InitWith({"docA"}, {{}}, {848}, {1},
           [NoBudget EXCEPT !.render = MaxRenders, !.open = 1, !.zoom = MaxZooms])

NextLive ==
  \/ openFile(1)
  \/ \E i \in DOMAIN loads : LoadOpened(i)
  \/ \E i \in DOMAIN loads : LoadPage1(i)
  \/ zoomIn
  \/ zoomOut
  \/ \E p \in Pages : Intersect(p, TRUE, 40)
  \/ \E r \in renders : RenderGotPage(r)
  \/ \E r \in renders : RenderTaskDone(r)
  \/ \E r \in renders : RenderCancelled(r)

Completions ==
  /\ WF_vars(\E i \in DOMAIN loads : LoadOpened(i))
  /\ WF_vars(\E i \in DOMAIN loads : LoadPage1(i))
  /\ WF_vars(\E r \in renders : RenderGotPage(r))
  /\ WF_vars(\E r \in renders : RenderTaskDone(r))
  /\ WF_vars(\E r \in renders : RenderCancelled(r))

SpecLive == InitLive /\ [][NextLive]_vars /\ Completions

\* Document swaps: files are opened, restored from disk and closed while loads
\* and renders are in flight.
InitSwap ==
  InitWith({"docA"}, {{"docA", "docB", Corrupt}}, {848}, {1},
           [NoBudget EXCEPT !.render = MaxRenders, !.open = MaxOpens, !.pick = MaxPicks])

NextSwap ==
  \/ \E f \in FileIds : openFile(f)
  \/ onBack
  \/ \E d \in Urls : handleRestoreFile(d)
  \/ \E i \in DOMAIN readers : ReaderLoad(i)
  \/ \E i \in DOMAIN loads : LoadOpened(i)
  \/ \E i \in DOMAIN loads : LoadFailed(i)
  \/ \E i \in DOMAIN loads : LoadPage1(i)
  \/ \E p \in Pages : Intersect(p, TRUE, 40)
  \/ \E r \in renders : RenderGotPage(r)
  \/ \E r \in renders : RenderGotPageUnmounted(r)
  \/ \E r \in renders : RenderTaskDone(r)
  \/ \E r \in renders : RenderCancelled(r)

SpecSwap == InitSwap /\ [][NextSwap]_vars

\* Load failures: a file whose stored or restored source may be corrupt is
\* opened, restored and closed, with loads overlapping and failing before or
\* after pages are shown.
InitErr ==
  InitWith({"docA", Corrupt}, {{"docA", Corrupt}}, {848}, {1},
           [NoBudget EXCEPT !.render = MaxRenders, !.open = MaxOpens, !.pick = MaxPicks])

NextErr ==
  \/ \E f \in FileIds : openFile(f)
  \/ onBack
  \/ \E d \in Urls : handleRestoreFile(d)
  \/ \E i \in DOMAIN readers : ReaderLoad(i)
  \/ \E i \in DOMAIN loads : LoadOpened(i)
  \/ \E i \in DOMAIN loads : LoadFailed(i)
  \/ \E i \in DOMAIN loads : LoadPage1(i)
  \/ \E p \in Pages : Intersect(p, TRUE, 40)
  \/ \E r \in renders : RenderGotPage(r)
  \/ \E r \in renders : RenderGotPageUnmounted(r)
  \/ \E r \in renders : RenderTaskDone(r)

SpecErr == InitErr /\ [][NextErr]_vars

\* Scale resolution: any window width, either document, any number of zoom
\* clicks, a file restored with the notes sidebar open; no page comes into view.
WindowWidths == {40, 400, 800, 848, 2000}

InitScale ==
  InitWith({"docA", "docB"}, {{"docA"}}, WindowWidths, {1},
           [NoBudget EXCEPT !.open = 1, !.zoom = Unlimited, !.toggle = MaxToggles,
                            !.pick = 1])

NextScale ==
  \/ \E f \in FileIds : openFile(f)
  \/ \E d \in Urls : handleRestoreFile(d)
  \/ \E i \in DOMAIN readers : ReaderLoad(i)
  \/ \E i \in DOMAIN loads : LoadOpened(i)
  \/ \E i \in DOMAIN loads : LoadPage1(i)
  \/ zoomIn
  \/ zoomOut
  \/ toggleNotes
  \/ \E i \in DOMAIN adjusts : AdjustFire(i)
  \/ \E i \in DOMAIN adjusts : AdjustResolve(i)

SpecScale == InitScale /\ [][NextScale]_vars

\* Current-page tracking and the issue of renders: a three-page document is
\* opened, its pages report intersection entries in any order, and a zoom
\* click changes the scale; the renders issued stay in flight.
InitVis ==
  InitWith({"docC"}, {{}}, {848}, {1},
           [NoBudget EXCEPT !.render = 2 * NumPagesOf("docC"), !.open = 1, !.zoom = 1])

NextVis ==
  \/ openFile(1)
  \/ \E i \in DOMAIN loads : LoadOpened(i)
  \/ \E i \in DOMAIN loads : LoadPage1(i)
  \/ \E p \in Pages : Intersect(p, FALSE, 0)
  \/ \E p \in Pages, x \in Ratios : Intersect(p, TRUE, x)
  \/ zoomIn

SpecVis == InitVis /\ [][NextVis]_vars

\* The Pomodoro timer on the file list: every control and the interval.
InitPomodoro == InitWith({NoUrl}, {{}}, {848}, {1}, NoBudget)

NextPomodoro ==
  \/ setIsExpanded(TRUE)
  \/ setIsExpanded(FALSE)
  \/ toggleTimer
  \/ resetTimer
  \/ Tick
  \/ \E val \in FocusInputs : handleFocusChange(val)
  \/ \E val \in BreakInputs : handleBreakChange(val)
  \/ setAutoStartBreak

SpecPomodoro == InitPomodoro /\ [][NextPomodoro]_vars

\* Canvas sizing: one document in windows that resolve to different scales, on
\* displays of device pixel ratio 1 and 2.
InitCanvas ==
  InitWith({"docA"}, {{}}, {800, 848}, {1, 2},
           [NoBudget EXCEPT !.render = MaxRenders, !.open = 1, !.zoom = 1])

NextCanvas ==
  \/ openFile(1)
  \/ \E i \in DOMAIN loads : LoadOpened(i)
  \/ \E i \in DOMAIN loads : LoadPage1(i)
  \/ zoomIn
  \/ \E p \in Pages : Intersect(p, TRUE, 40)
  \/ \E r \in renders : RenderGotPage(r)
  \/ \E r \in renders : RenderTaskDone(r)
  \/ \E r \in renders : RenderCancelled(r)

SpecCanvas == InitCanvas /\ [][NextCanvas]_vars

\* The toolbar: the pointer enters and leaves it, its zoom and notes controls
\* are clicked, and its hide timer fires.
InitToolbar ==
  InitWith({"docA"}, {{}}, {848}, {1},
           [NoBudget EXCEPT !.open = 1, !.zoom = MaxZooms, !.toggle = MaxToggles])

NextToolbar ==
  \/ openFile(1)
  \/ \E i \in DOMAIN loads : LoadOpened(i)
  \/ \E i \in DOMAIN loads : LoadPage1(i)
  \/ zoomIn
  \/ zoomOut
  \/ toggleNotes
  \/ \E i \in DOMAIN adjusts : AdjustFire(i)
  \/ \E i \in DOMAIN adjusts : AdjustResolve(i)
  \/ toolbarMouseEnter
  \/ toolbarMouseLeave
  \/ showControls
  \/ ToolbarHide

SpecToolbar == InitToolbar /\ [][NextToolbar]_vars

(******************************* claims ************************************)
\* the ratio the Visibility Record holds for page p; an absent page counts as 0
RecordedRatio(pv, p) ==
  IF \E i \in DOMAIN pv : pv[i][1] = p
  THEN (CHOOSE e \in {pv[i] : i \in DOMAIN pv} : e[1] = p)[2]
  ELSE 0

\* the lowest page index among the pages of the document with the maximum ratio
LowestMostVisible(pv, n) ==
  CHOOSE p \in 1 .. n :
    /\ \A q \in 1 .. n : RecordedRatio(pv, q) <= RecordedRatio(pv, p)
    /\ \A q \in 1 .. p - 1 : RecordedRatio(pv, q) < RecordedRatio(pv, p)

\* C1: after any sequence of visibility updates the current page is the page
\* with the maximum recorded ratio, ties going to the lowest page index,
\* whatever the order of the updates and the previous current page.
C1_CurrentPageIsLowestMostVisible ==
  (PagesShown /\ pageVisibility # <<>>) =>
    currentPage = LowestMostVisible(pageVisibility, numPages)

\* the render tasks (page.render) of page p that are rendering into its canvas
RunningTasks(p) == {r \in renders : r.page = p /\ r.phase = "raster" /\ ~r.orphan}

\* C2: whatever scale changes, page fetches and render completions interleave,
\* a page never has two render tasks in flight: the task a new one replaces
\* has been cancelled.
C2_AtMostOneRenderTaskPerPage ==
  \A p \in Pages :
    /\ Cardinality(RunningTasks(p)) <= 1
    /\ \A r \in RunningTasks(p) : slots[p].renderTaskRef = r.id

\* a newer render of page p has cancelled the task of an older one and is running
C2_Witness ==
  \E p \in Pages : \E r1, r2 \in renders :
    /\ r1.page = p /\ r2.page = p
    /\ r1.phase = "cancelled" /\ r2.phase = "raster"
    /\ r1.scale # r2.scale

\* this step is the successful completion of invocation r: its output is now
\* what the canvas of its page shows
Applied(r) ==
  /\ r \in renders /\ r.phase = "raster" /\ ~r.orphan
  /\ r \notin renders'
  /\ slots'[r.page].mounted
  /\ slots'[r.page].canvas.content = [doc |-> r.doc, scale |-> r.scale]
  /\ slots[r.page].canvas.content = NoContent

\* C3: a render of page P at scale S1 that completes after the shared scale has
\* changed to S2 is discarded: it neither updates what P displays nor marks P
\* rendered.
C3_StaleResultDiscarded ==
  [][\A r \in renders : Applied(r) => r.scale = scale]_vars

\* the requests of page p that are outstanding
Outstanding(p) == {r \in renders : r.page = p /\ ~r.orphan}

\* C4: of two outstanding requests of a page only the latest is ever applied,
\* in whatever order their steps complete, so that once none is outstanding
\* the page shows content rendered at the current shared scale.
C4_OnlyLatestRequestApplied ==
  /\ [][\A r \in renders : Applied(r) => \A q \in Outstanding(r.page) : q.id <= r.id]_vars
  /\ [](\A p \in Pages :
          (slots[p].mounted /\ Outstanding(p) = {}
             /\ slots[p].canvas.content # NoContent)
          => slots[p].canvas.content.scale = scale)

\* C5: cancelling a render in flight, and the rejection the cancelled task
\* delivers, reports nothing: the document-level error, the console and the
\* page slot stay as they are.
C5_CancellationIsSilent ==
  [][\A r \in renders :
       /\ (r.phase = "raster" /\ [r EXCEPT !.phase = "cancelled"] \in renders')
            => (error' = error /\ consoleErrors' = consoleErrors
                /\ slots'[r.page].isRendered = slots[r.page].isRendered)
       /\ (r.phase = "cancelled" /\ r \notin renders')
            => (error' = error /\ consoleErrors' = consoleErrors /\ slots' = slots)
    ]_vars

\* the first render of page 1 was cancelled by the second and its rejection has
\* been consumed: nothing is left of it
C5_Witness ==
  /\ nextRender = 3
  /\ \A p \in Pages : p # 1 => ~slots[p].isVisible
  /\ slots[1].mounted /\ ~slots[1].isRendered /\ slots[1].renderTaskRef = 2
  /\ \E r \in renders : renders = {r} /\ r.id = 2 /\ r.phase = "raster"
  /\ consoleErrors = {} /\ error = NoError

\* C6: when a new document takes the place of the previous one, by close and
\* open or by a replaced source in an open viewer, every page slot of the new
\* document starts unrendered and without a measured height.
C6_SwapResetsSlots ==
  [][(pdfDoc' # NoDoc /\ pdfDoc' # pdfDoc) =>
       \A p \in Pages : slots'[p].mounted =>
         (~slots'[p].isRendered /\ slots'[p].pageHeight = NoHeight)]_vars

\* this step continues or ends invocation r without any change to the viewer
RenderStep(r) ==
  /\ r \in renders /\ r \notin renders'
  /\ viewerVars' = viewerVars /\ currentFile' = currentFile

\* C7: once a document handle has been accepted, no render task of another
\* document (or of a closed viewer) is still running, and a step of a render
\* started for another document changes no page slot.
C7_OldRendersCancelledOnSwap ==
  /\ [](pdfDoc # NoDoc =>
          \A r \in renders : r.phase = "raster" => (r.doc = pdfDoc /\ ~r.orphan))
  /\ [][\A r \in renders : (RenderStep(r) /\ r.doc # pdfDoc) => slots' = slots]_vars

\* this step is a zoom command: the scale moves and nothing asynchronous ends
ZoomStepTaken == scale' # scale /\ loads' = loads /\ adjusts' = adjusts

\* C8: after every zoomIn and zoomOut, from any scale the viewer can be at, the
\* scale lies in [0.2, 5.0], and the command raises no error.
C8_ZoomClamped ==
  [][ZoomStepTaken =>
       /\ scale'[1] * 5 >= scale'[2]
       /\ scale'[1] <= 5 * scale'[2]
       /\ error' = error]_vars

\* zoomIn has brought a document opened in a window too narrow for any page
\* (fit scale below zero) up to the lower bound
C8_Witness ==
  /\ innerWidth = 40 /\ pdfDoc # NoDoc /\ loads = <<>> /\ adjusts = <<>>
  /\ scale = MinScale

\* loadPdf has set the initial scale from load l in this step
LoadResolved(l) ==
  /\ l.phase = "page1"
  /\ \E i \in DOMAIN loads : loads[i] = l /\ loads' = RemoveAt(loads, i)
  /\ loading' = FALSE /\ error' = error

\* adjustScale has set the scale from call a in this step
AdjustResolved(a) ==
  /\ a.phase = "page1"
  /\ \E i \in DOMAIN adjusts : adjusts[i] = a /\ adjusts' = RemoveAt(adjusts, i)

\* n/d = min(w / natural, 1), in cross-multiplied integers (natural > 0)
IsFitOf(sc, w, natural) ==
  IF w >= natural THEN sc = <<1, 1>>
  ELSE sc[1] * natural = w * sc[2]

\* C9 as stated: the resolved scale is min(containerWidth / naturalWidth, 1.0)
\* of the width of the page container, on initial load and on re-resolution.
C9_FitToContainerWidth ==
  [][/\ \A l \in {loads[i] : i \in DOMAIN loads} : LoadResolved(l) =>
          IsFitOf(scale', innerWidth - (IF l.notes THEN 384 ELSE 0), NaturalWidth(l.doc))
     /\ \A a \in {adjusts[i] : i \in DOMAIN adjusts} : AdjustResolved(a) =>
          IsFitOf(scale', a.width, NaturalWidth(a.doc))]_vars

\* C9 amended: the resolved scale is min(availableWidth / naturalWidth, 1.0),
\* the available width being the window width less the notes sidebar (384, when
\* shown) less 48 on initial load, and the container width less 64 on
\* re-resolution; an available width of 800 over a natural width of 1000
\* resolves to 0.8.
C9_FitToAvailableWidth ==
  [][/\ \A l \in {loads[i] : i \in DOMAIN loads} : LoadResolved(l) =>
          /\ IsFitOf(scale', innerWidth - (IF l.notes THEN 384 ELSE 0) - 48,
                     NaturalWidth(l.doc))
          /\ (innerWidth = 848 /\ ~l.notes /\ NaturalWidth(l.doc) = 1000)
               => scale' = <<4, 5>>
     /\ \A a \in {adjusts[i] : i \in DOMAIN adjusts} : AdjustResolved(a) =>
          IsFitOf(scale', a.width - 64, NaturalWidth(a.doc))]_vars

\* a file restored with the notes sidebar open in a window of width 848 was
\* loaded at (848 - 384 - 48) / 1000, and the sidebar, closed since, has the
\* scale re-resolved to (848 - 64) / 1000
C9_Witness ==
  /\ innerWidth = 848 /\ currentFile.id = 2 /\ pdfDoc = "docA"
  /\ ~loading /\ loads = <<>> /\ adjusts = <<>> /\ ~showNotes
  /\ scale = <<98, 125>> /\ budget.toggle = MaxToggles - 2

\* this step is an automatic fit-to-width resolution
AutoResolved ==
  \/ \E l \in {loads[i] : i \in DOMAIN loads} : LoadResolved(l)
  \/ \E a \in {adjusts[i] : i \in DOMAIN adjusts} : AdjustResolved(a)

\* C10: automatic fit-to-width resolution, on load and on every re-resolution,
\* never sets a scale above 1.0.
C10_AutoScaleAtMostOne ==
  [][AutoResolved => scale'[1] <= scale'[2]]_vars

\* a page narrower than the window (500 in 2000) was loaded and is shown at 1.0
C10_Witness ==
  /\ pdfDoc = "docB" /\ innerWidth = 2000 /\ ~loading /\ loads = <<>>
  /\ scale = One /\ budget.open = 0

\* the restore view is shown: the file of the viewer has no content source
MissingContent == currentFile # NoFile /\ currentFile.url = NoUrl

\* this step is the successful end of load l, the open of the viewer's source
OpenSucceeded(l) ==
  /\ LoadResolved(l)
  /\ currentFile # NoFile /\ currentFile' = currentFile
  /\ l.doc = currentFile.url

\* C11: a viewer whose source is missing attempts no open; a replacement source
\* that arrives is opened; and when that open succeeds the viewer shows the
\* document with its page count.
C11_RestoreReopens ==
  /\ [](MissingContent =>
          (loads = <<>> /\ ~loading /\ pdfDoc = NoDoc /\ \A p \in Pages : ~slots[p].mounted))
  /\ [][(MissingContent /\ Len(readers') < Len(readers)) =>
          /\ currentFile'.url # NoUrl
          /\ loading'
          /\ loads' = <<[doc |-> currentFile'.url, phase |-> "open", notes |-> showNotes]>>]_vars
  /\ [][\A l \in {loads[i] : i \in DOMAIN loads} : OpenSucceeded(l) =>
          (PagesShown' /\ pdfDoc' = l.doc /\ numPages' = NumPagesOf(l.doc))]_vars

\* C12: the shared scale is strictly positive in every state: after the initial
\* fit-to-width resolution, after every re-resolution for any container width,
\* and after any sequence of zoom commands.
C12_ScalePositive == scale[1] > 0 /\ scale[2] > 0

\* C13: when a new document handle is accepted the Visibility Record has been
\* reset: it holds no (page, ratio) entry recorded for the previous document.
C13_SwapResetsVisibility ==
  [][(pdfDoc' # NoDoc /\ pdfDoc' # pdfDoc) => pageVisibility' = <<>>]_vars

\* this step is the catch of render() reporting a failure of invocation r that
\* is not a cancellation
RenderFailed(r) ==
  /\ r \in renders /\ r.phase = "raster" /\ ~r.orphan
  /\ \A q \in renders' : q.id # r.id
  /\ <<"render", r.page>> \in consoleErrors'
  /\ slots'[r.page].canvas.content = slots[r.page].canvas.content

\* the page slot shows its spinner: it is visible and not marked rendered
Spinning(p) == slots[p].mounted /\ slots[p].isVisible /\ ~slots[p].isRendered

\* C14: a render failure that is not a cancellation takes the page slot to an
\* observable failed state: the slot changes, and it is not left pending (its
\* spinner showing) with no render in flight.
C14_FailureObservable ==
  /\ [][\A r \in renders : RenderFailed(r) => slots'[r.page] # slots[r.page]]_vars
  /\ [](\A p \in Pages : Spinning(p) => Outstanding(p) # {})

\* C15: a render failure of page P is page-local: the step that reports it
\* changes no other page's slot, cancels or removes no other render, and
\* leaves the document-level error as it is.
C15_FailureIsPageLocal ==
  [][\A r \in renders : RenderFailed(r) =>
       /\ \A q \in Pages : q # r.page => slots'[q] = slots[q]
       /\ renders' = renders \ {r}
       /\ error' = error /\ loading' = loading
       /\ pdfDoc' = pdfDoc /\ scale' = scale]_vars

\* the render of one page has failed and the render of the other page, in
\* flight at the time, has completed since
C15_Witness ==
  /\ \E p \in Pages : <<"render", p>> \in consoleErrors /\ Spinning(p)
  /\ \E q \in Pages : slots[q].isRendered /\ <<"render", q>> \notin consoleErrors
  /\ renders = {} /\ error = NoError

\* page p is reported intersecting for the first time in this step
BecomesVisible(p) == slots'[p].isVisible /\ ~slots[p].isVisible

\* the render() invocations this step starts
Issued == {r \in renders' : r.id >= nextRender}

\* a page takes part in rendering only once it has been reported intersecting
\* and a document handle is there; a render is issued at the scale and for the
\* document of the commit that issues it
IssueDiscipline ==
  /\ [](\A p \in Pages : (slots[p].mounted /\ ~slots[p].isVisible) =>
          /\ \A r \in renders : r.page # p
          /\ slots[p].renderTaskRef = 0 /\ ~slots[p].isRendered
          /\ slots[p].canvas = BlankCanvas)
  /\ [](\A r \in renders : r.doc # NoDoc)
  /\ [][\A r \in Issued :
          /\ r.scale = scale' /\ r.doc = pdfDoc' /\ pdfDoc' # NoDoc
          /\ r.phase = "getPage"
          /\ slots'[r.page].mounted /\ slots'[r.page].isVisible]_vars

\* C16 as stated: a page issues its first render only on a visibility update
\* whose ratio is non-zero.
C16_RenderOnlyAtNonZeroRatio ==
  /\ IssueDiscipline
  /\ [][\A p \in Pages : BecomesVisible(p) => RecordedRatio(pageVisibility', p) > 0]_vars

\* C16 amended: a page issues a render only once the observer has reported it
\* intersecting the margin-extended viewport (an entry whose ratio may be 0)
\* and a document handle is available; a page never reported intersecting has
\* no render; a render is issued at the shared scale current at that moment.
C16_RenderOnlyOnceIntersecting ==
  /\ IssueDiscipline
  /\ [][\A p \in Pages : BecomesVisible(p) =>
          /\ \E i \in DOMAIN pageVisibility' : pageVisibility'[i][1] = p
          /\ pdfDoc # NoDoc
          /\ \E r \in Issued : r.page = p]_vars

\* page 1 was rendered at the scale of the load and again at the scale of the
\* zoom click, while page 3, reported as not intersecting, has no render
C16_Witness ==
  /\ \E r1, r2 \in renders : r1.page = 1 /\ r2.page = 1 /\ r1.scale # r2.scale
                              /\ r2.scale = scale
  /\ slots[3].mounted /\ ~slots[3].isVisible
  /\ \E i \in DOMAIN pageVisibility : pageVisibility[i] = <<3, 0>>
  /\ \A r \in renders : r.page # 3

\* page p shows the raster of the current document at the current shared scale
\* and nothing is in flight for it
Settled(p) ==
  /\ slots[p].isRendered
  /\ slots[p].canvas.content = [doc |-> pdfDoc, scale |-> scale]
  /\ Outstanding(p) = {}

PendingTimers == {i \in DOMAIN adjusts : adjusts[i].phase = "timer"}

\* this step is timer i firing: adjustScale starts
TimerFired(i) ==
  /\ i \in PendingTimers
  /\ Len(adjusts') = Len(adjusts)
  /\ adjusts'[i].phase = "page1"

\* C18: container-width changes are debounced: a change that follows the
\* previous one within the quiet period replaces its pending re-resolution, so
\* at most one is pending and a re-resolution starts only for the last change
\* of a burst.
C18_ResolutionDebounced ==
  /\ [](Cardinality(PendingTimers) <= 1)
  /\ [][\A i \in PendingTimers : TimerFired(i) => PendingTimers = {i}]_vars

\* C19: while the document-level load error is set, all page activity is
\* halted: no page slot exists (none is pending or rendered), no render is
\* issued and no completion is applied to a slot, and the one message
\* surfaced is the load error.
C19_LoadErrorHaltsPages ==
  /\ [](error # NoError =>
          /\ error = LoadErrorMessage
          /\ \A p \in Pages : ~slots[p].mounted
          /\ \A r \in renders : r.orphan)
  /\ [][(error # NoError /\ error' # NoError) => (Issued = {} /\ slots' = slots)]_vars

\* a load failed in a viewer that was showing pages: the page list is gone
\* while a render issued for it is still in flight
C19_Witness ==
  /\ error = LoadErrorMessage /\ currentFile # NoFile /\ pdfDoc # NoDoc
  /\ \E r \in renders : r.orphan /\ r.phase = "raster"

\* C20: the measured height of a page is unset while no render of the page
\* has succeeded (the first render pending, cancelled or failed) and set once
\* a render has succeeded.
C20_HeightSetOnRenderSuccess ==
  \A p \in Pages : slots[p].mounted =>
    (slots[p].pageHeight # NoHeight <=> slots[p].isRendered)

(* ------------------------------------------------------------------------ *)
\* the least integer not below x * r
CeilMul(x, r) == 0 - ((0 - x * r[1]) \div r[2])

\* the page of slot p shows a finished render of document doc at scale sc
Painted(p) == slots[p].mounted /\ slots[p].canvas.content # NoContent

\* C21: a page rendered at scale s on a display of device pixel ratio d has a
\* backing store of ceil(naturalWidth * s * d) by ceil(naturalHeight * s * d)
\* pixels and a CSS size of exactly naturalWidth * s by naturalHeight * s.
C21_CanvasSize ==
  \A p \in Pages :
    Painted(p) =>
      LET c == slots[p].canvas
          doc == c.content.doc
          s == c.content.scale
      IN /\ c.width = CeilMul(NaturalWidth(doc) * dpr, s)
         /\ c.height = CeilMul(NaturalHeight(doc) * dpr, s)
         /\ c.styleWidth * s[2] = NaturalWidth(doc) * s[1]
         /\ c.styleHeight * s[2] = NaturalHeight(doc) * s[1]

(* ------------------------------------------------------------------------ *)
\* a step that is not a visibility update: the scale, the notes sidebar or the
\* pending re-resolutions change, or a render() invocation moves on or ends
NotVisibilityUpdate ==
  \/ scale' # scale
  \/ showNotes' # showNotes
  \/ adjusts' # adjusts
  \/ ~(renders \subseteq renders')

\* C22: zoomIn / zoomOut, container-width re-resolution, toggling the notes
\* sidebar and render completions leave the current page index and the
\* visibility record unchanged.
C22_CurrentPageFrame ==
  [][NotVisibilityUpdate =>
       (currentPage' = currentPage /\ pageVisibility' = pageVisibility)]_vars

\* page 2 is the current page after a zoom click, a finished re-resolution and
\* a finished render of that page
C22_Witness ==
  /\ currentPage = 2
  /\ budget.zoom < MaxZooms
  /\ budget.toggle = 0 /\ adjusts = <<>>
  /\ slots[2].mounted /\ slots[2].isRendered

(* ------------------------------------------------------------------------ *)
\* an open of the viewer's present source is still in flight
OpenInFlight == \E i \in DOMAIN loads : loads[i].doc = currentFile.url

\* C23: when the source changes while an open is in flight, then once every
\* open has completed the document and the page count are those of the latest
\* source, and the loading indicator stays on until the open of the latest
\* source has completed.
C23_LatestSourceWins ==
  (currentFile # NoFile /\ currentFile.url \in Docs) =>
    /\ loads = <<>> => (pdfDoc = currentFile.url /\ numPages = NumPagesOf(currentFile.url))
    /\ OpenInFlight => loading

(* ------------------------------------------------------------------------ *)
\* C24: whenever the pages of a document with at least one page are displayed,
\* the current page index is one of its pages, also after the document has
\* been replaced by one with fewer pages.
C24_CurrentPageInRange ==
  (PagesShown /\ numPages >= 1) => currentPage \in 1 .. numPages

(* ------------------------------------------------------------------------ *)
\* slot p is activated and stays mounted over the step
StaysActive(p) ==
  /\ slots[p].mounted /\ slots[p].isVisible
  /\ slots'[p].mounted

\* C25: page activation is latched.  A slot that has intersected once stays
\* eligible for rendering while it is mounted, and every later change of the
\* shared scale starts a new render of it at the new scale, whatever its
\* recorded visibility ratio is.
C25_ActivationLatched ==
  [][\A p \in Pages :
       StaysActive(p) =>
         /\ slots'[p].isVisible
         /\ (scale' # scale /\ pdfDoc' # NoDoc) =>
              \E r \in Issued : r.page = p /\ r.scale = scale' /\ r.doc = pdfDoc']_vars

\* page 1 has been scrolled away (its recorded ratio is 0) and a render of it
\* at the zoomed scale is in flight next to the one of its first activation
C25_Witness ==
  /\ slots[1].mounted /\ slots[1].isVisible
  /\ RecordedRatio(pageVisibility, 1) = 0
  /\ budget.zoom = 0
  /\ \E r \in renders : r.page = 1 /\ r.scale = scale /\ r.id > 1

C27_ZoomMonotone ==
  currentFile # NoFile =>
    /\ RatLeq(ZoomedScale(scale, ZoomOutDelta), scale)
    /\ RatLeq(scale, ZoomedScale(scale, ZoomInDelta))

(* ------------------------------------------------------------------------ *)
\* C28: a container-width re-resolution sets the shared scale to the
\* fit-to-width value capped at 1.0 whatever zoom the user applied before the
\* toggle or during the delay: after it the scale is at most 1.0 and the
\* earlier zoom is gone.
C28_ResolutionDiscardsZoom ==
  [][\A a \in {adjusts[i] : i \in DOMAIN adjusts} :
       AdjustResolved(a) =>
         /\ RatLeq(scale', One)
         /\ IsFitOf(scale', a.width - AdjustPadding, NaturalWidth(a.doc))]_vars

\* the user zoomed from 0.8 to 1.0, a page was rendered at 1.0, and the
\* re-resolution of the opened sidebar then set 0.4 and re-rendered the page
C28_Witness ==
  /\ scale = <<2, 5>> /\ showNotes /\ adjusts = <<>>
  /\ budget.zoom = 0 /\ budget.toggle = 0
  /\ \E r1, r2 \in renders :
       r1.scale = One /\ r2.scale = scale /\ r1.page = r2.page /\ r1.id < r2.id

(* ------------------------------------------------------------------------ *)
\* C29: the toolbar never auto-hides while the pointer is over it: between a
\* mouse-enter on the toolbar and the next mouse-leave the toolbar stays
\* shown, whichever of its controls are clicked in between.
C29_NoHideWhileHovering ==
  pointerOverToolbar => showToolbar

(* ------------------------------------------------------------------------ *)
\* C30: pausing a running countdown preserves timeLeft, and pressing START
\* afterwards resumes the countdown of the same mode from the remaining time,
\* not from the full configured duration.
C30_PausePreservesTimeLeft ==
  pomodoro.status # "IDLE" =>
    /\ AfterToggleTimer(pomodoro).status = "IDLE"
    /\ AfterToggleTimer(pomodoro).timeLeft = pomodoro.timeLeft
    /\ AfterToggleTimer(AfterToggleTimer(pomodoro)) = pomodoro

====
